---- MODULE Spec2Model ----
(***************************************************************************)
(* State-machine model of src/src/SnakeGame.tsx (the SnakeGame component). *)
(*                                                                         *)
(* The program state is the component's useState cells (snake, food,       *)
(* gameOver, score, isPaused, gameStarted) and its two refs (directionRef, *)
(* gameLoopRef).  There are three events: the click on the start button    *)
(* (startGame), a keydown (handleKeyPress) and a fire of the interval      *)
(* timer (the setSnake updater of the game loop).  An event is modelled    *)
(* together with the render it causes and the run of the game-loop effect  *)
(* after that render: the browser runs each handler to completion and      *)
(* React commits the batched updates before the next event is handled.     *)
(* The updater passed to setSnake runs once per fire of the interval, as   *)
(* in a production build.                                                  *)
(*                                                                         *)
(* Math.random() is an input: a draw is one of randomLevels equally spaced *)
(* values j / randomLevels in [0, 1).                                      *)
(*                                                                         *)
(* History variables (not program state): keys counts the keydown events   *)
(* handled so far, lastEvent / lastKey name the event that led to the      *)
(* current state, pre is the state before that event, applied is the       *)
(* direction the latest tick of the current round moved along, and         *)
(* pausedDir is the direction that was pending when the game was paused    *)
(* (kept until the first event after the game resumes).  created and       *)
(* cancelled count the setInterval and clearInterval calls the last event  *)
(* caused, undone tells, when the last two events were space pressed in a  *)
(* started round that is not over, whether the second press gave back the  *)
(* program state before the first ("same" or "differs"), lastAccepted is   *)
(* the direction of the last movement key accepted in this round, and      *)
(* changes counts the changes of the pending direction since the last      *)
(* tick.  timers is the number of live intervals in the browser, and       *)
(* randomLevels is the number of values Math.random() can return in the    *)
(* behaviour.                                                              *)
(***************************************************************************)
EXTENDS Integers, Sequences, FiniteSets

VARIABLES snake, food, gameOver, score, isPaused, gameStarted,
          directionRef, gameLoopRef,
          timers, randomLevels,
          keys, lastEvent, lastKey, pre, applied, pausedDir,
          created, cancelled, undone, lastAccepted, changes

progVars == <<snake, food, gameOver, score, isPaused, gameStarted,
              directionRef, gameLoopRef>>

vars == <<snake, food, gameOver, score, isPaused, gameStarted,
          directionRef, gameLoopRef, timers, randomLevels,
          keys, lastEvent, lastKey, pre, applied, pausedDir,
          created, cancelled, undone, lastAccepted, changes>>

----------------------------------------------------------------------------
(* Bounds of the model *)

\* number of keydown events handled in one behaviour
MaxKeys == 3

\* number of keydown events handled in one behaviour of SpecLive
LiveKeys == 1

\* number of distinct values Math.random() is let to return in Spec
RandomLevels == 2

----------------------------------------------------------------------------
(* Constants of the program *)

GRID_SIZE == 20

Pos(px, py) == [x |-> px, y |-> py]

INITIAL_SNAKE == <<Pos(10, 10), Pos(10, 11), Pos(10, 12)>>

INITIAL_DIRECTION == "UP"

Direction == {"UP", "DOWN", "LEFT", "RIGHT"}

\* value of gameLoopRef.current: null, or the handle of the armed interval
NULL == "null"

INTERVAL == "interval"

\* absent direction (no tick yet in this round)
NONE == "none"

----------------------------------------------------------------------------
(* Keys *)

MovementKeys == {"ArrowUp", "ArrowDown", "ArrowLeft", "ArrowRight",
                 "w", "s", "a", "d"}

\* " " is the space bar; "Enter" stands for a key the handler does not map
Keys == MovementKeys \cup {" ", "Enter"}

keyMap ==
    [k \in MovementKeys |->
        CASE k \in {"ArrowUp", "w"}    -> "UP"
          [] k \in {"ArrowDown", "s"}  -> "DOWN"
          [] k \in {"ArrowLeft", "a"}  -> "LEFT"
          [] k \in {"ArrowRight", "d"} -> "RIGHT"]

oppositeDirections ==
    [d \in Direction |->
        CASE d = "UP"    -> "DOWN"
          [] d = "DOWN"  -> "UP"
          [] d = "LEFT"  -> "RIGHT"
          [] d = "RIGHT" -> "LEFT"]

----------------------------------------------------------------------------
(* Food placement *)

\* Math.floor(Math.random() * GRID_SIZE) for Math.random() = j / randomLevels
RandomCoord == {(j * GRID_SIZE) \div randomLevels : j \in 0 .. randomLevels - 1}

\* the positions one call of generateFood can return
generateFood == {Pos(px, py) : px \in RandomCoord, py \in RandomCoord}

isValidFoodPosition(pos, snakeBody) ==
    ~ \E i \in 1 .. Len(snakeBody) :
          snakeBody[i].x = pos.x /\ snakeBody[i].y = pos.y

\* variant: the first draw is taken without the validity loop
PlaceFood_NoRejection(snakeBody) == generateFood

\* let newFood = generateFood(); while (!isValid(newFood, body)) newFood = generateFood();
\* the positions the loop can end with
PlaceFood(snakeBody) ==
    {p \in generateFood : isValidFoodPosition(p, snakeBody)}

----------------------------------------------------------------------------
(* The game loop *)

\* variant: the head moved along the initial direction whatever is pending
MoveHead_AlwaysUp(head, dir) == Pos(head.x, head.y - 1)

\* the switch on currentDirection: the head displaced by one cell
MoveHead(head, dir) ==
    CASE dir = "UP"    -> Pos(head.x, head.y - 1)
      [] dir = "DOWN"  -> Pos(head.x, head.y + 1)
      [] dir = "LEFT"  -> Pos(head.x - 1, head.y)
      [] dir = "RIGHT" -> Pos(head.x + 1, head.y)

\* variant: the far walls tested with > in place of >=
WallCollision_OffByOne(head) ==
    \/ head.x < 0
    \/ head.x > GRID_SIZE
    \/ head.y < 0
    \/ head.y > GRID_SIZE

\* variant: the tests against the right and bottom walls left out
WallCollision_NoFarWalls(head) ==
    \/ head.x < 0
    \/ head.y < 0

WallCollision(head) ==
    \/ head.x < 0
    \/ head.x >= GRID_SIZE
    \/ head.y < 0
    \/ head.y >= GRID_SIZE

\* variant: the new head tested against the snake without its last segment
SelfCollision_SkipTail(head, prevSnake) ==
    \E i \in 1 .. Len(prevSnake) - 1 :
        prevSnake[i].x = head.x /\ prevSnake[i].y = head.y

SelfCollision(head, prevSnake) ==
    \E i \in 1 .. Len(prevSnake) :
        prevSnake[i].x = head.x /\ prevSnake[i].y = head.y

\* variant: [...prevSnake], the new head left out
Prepend_NoHead(head, prevSnake) == prevSnake

\* [head, ...prevSnake]
Prepend(head, prevSnake) == <<head>> \o prevSnake

\* head.x === food.x && head.y === food.y
FoodCollision(head, f) == head.x = f.x /\ head.y = f.y

\* variant: a reward of 1
AddScore_One(prev) == prev + 1

\* setScore(prev => prev + 10)
AddScore(prev) == prev + 10

\* variant: newSnake.shift(), which drops the new head
Pop_Shift(s) == SubSeq(s, 2, Len(s))

\* newSnake.pop()
Pop(s) == SubSeq(s, 1, Len(s) - 1)

\* variant: the loop kept running while paused
LoopRuns_IgnorePause(started, paused, over) == ~ (~started \/ over)

\* variant: the loop kept running after the game is over
LoopRuns_IgnoreGameOver(started, paused, over) == ~ (~started \/ paused)

\* the condition under which the game-loop effect arms the interval
LoopRuns(started, paused, over) == ~ (~started \/ paused \/ over)

\* variant: an effect that returns no cleanup
EffectCleanup_Missing(ref) ==
    [ref |-> ref, cancelled |-> 0]

\* the cleanup of the game-loop effect, on the ref it finds:
\* if (gameLoopRef.current) { clearInterval(...); gameLoopRef.current = null; }
EffectCleanup(ref) ==
    [ref |-> NULL, cancelled |-> IF ref # NULL THEN 1 ELSE 0]

\* the body of the game-loop effect, on the ref it finds: clear and return
\* when the loop is not to run, else arm a new interval
EffectBody(ref, runs) ==
    IF ~runs
        THEN [ref |-> NULL, cancelled |-> IF ref # NULL THEN 1 ELSE 0,
              created |-> 0]
        ELSE [ref |-> INTERVAL, cancelled |-> 0, created |-> 1]

\* the game-loop effect after a render with the given dependencies: it runs
\* again only when one of them (gameStarted, isPaused, gameOver, food) changed;
\* then the cleanup of the previous run is followed by the body
EffectRun(started, paused, over, newFood) ==
    IF <<started, paused, over, newFood>> = <<gameStarted, isPaused, gameOver, food>>
        THEN [ref |-> gameLoopRef, cancelled |-> 0, created |-> 0]
        ELSE LET c == EffectCleanup(gameLoopRef)
                 b == EffectBody(c.ref, LoopRuns(started, paused, over))
             IN  [ref |-> b.ref, cancelled |-> c.cancelled + b.cancelled,
                  created |-> b.created]

\* gameLoopRef.current after the render
GameLoopEffect(started, paused, over, newFood) ==
    EffectRun(started, paused, over, newFood).ref

----------------------------------------------------------------------------
(* The keys and directions as the player reads them: used by the history   *)
(* variables and by the properties, not by the handlers.                   *)

Opposite(d) ==
    IF d = "UP" THEN "DOWN"
    ELSE IF d = "DOWN" THEN "UP"
    ELSE IF d = "LEFT" THEN "RIGHT"
    ELSE "LEFT"

\* the direction a movement key asks for
Intent(key) ==
    IF key \in {"ArrowUp", "w"} THEN "UP"
    ELSE IF key \in {"ArrowDown", "s"} THEN "DOWN"
    ELSE IF key \in {"ArrowLeft", "a"} THEN "LEFT"
    ELSE "RIGHT"

IsMovementKey(key) ==
    key \in {"ArrowUp", "ArrowDown", "ArrowLeft", "ArrowRight", "w", "s", "a", "d"}

----------------------------------------------------------------------------
(* State *)

\* what the view shows: the start overlay while not started, else the game-over
\* overlay, else the paused overlay, else the running board
GameStateOf(started, paused, over) ==
    IF ~started THEN "NotStarted"
    ELSE IF over THEN "GameOver"
    ELSE IF paused THEN "Paused"
    ELSE "Running"

GameState == GameStateOf(gameStarted, isPaused, gameOver)

\* the program part of a recorded state
ProgOf(st) ==
    [snake |-> st.snake, food |-> st.food, gameOver |-> st.gameOver,
     score |-> st.score, isPaused |-> st.isPaused, gameStarted |-> st.gameStarted,
     directionRef |-> st.directionRef, gameLoopRef |-> st.gameLoopRef,
     timers |-> st.timers]

State ==
    [snake |-> snake, food |-> food, gameOver |-> gameOver, score |-> score,
     isPaused |-> isPaused, gameStarted |-> gameStarted,
     directionRef |-> directionRef, gameLoopRef |-> gameLoopRef,
     timers |-> timers,
     applied |-> applied, pausedDir |-> pausedDir,
     lastAccepted |-> lastAccepted, changes |-> changes]

\* the history variables and the count of live intervals after an event, from
\* the state before it and the program state after it
Observe ==
    /\ LET e == EffectRun(gameStarted', isPaused', gameOver', food')
       IN  /\ created' = e.created
           /\ cancelled' = e.cancelled
           /\ timers' = timers + e.created - e.cancelled
    /\ undone' =
           IF /\ lastEvent' = "key" /\ lastKey' = " "
              /\ gameStarted /\ ~gameOver
              /\ lastEvent = "key" /\ lastKey = " "
              /\ pre.gameStarted /\ ~pre.gameOver
               THEN IF [snake |-> snake', food |-> food', gameOver |-> gameOver',
                        score |-> score', isPaused |-> isPaused',
                        gameStarted |-> gameStarted',
                        directionRef |-> directionRef',
                        gameLoopRef |-> gameLoopRef', timers |-> timers']
                       = ProgOf(pre)
                        THEN "same"
                        ELSE "differs"
               ELSE NONE
    /\ lastAccepted' =
           IF lastEvent' = "start"
              \/ (lastEvent' = "key" /\ lastKey' = " " /\ gameStarted /\ gameOver)
               THEN "UP"
           ELSE IF /\ lastEvent' = "key"
                   /\ gameStarted /\ ~gameOver /\ ~isPaused
                   /\ IsMovementKey(lastKey')
                   /\ Intent(lastKey') # Opposite(lastAccepted)
               THEN Intent(lastKey')
           ELSE lastAccepted
    /\ changes' =
           IF lastEvent' # "key" \/ (lastKey' = " " /\ gameOver)
               THEN 0
           ELSE IF directionRef' # directionRef THEN changes + 1
           ELSE changes
    /\ randomLevels' = randomLevels

\* pausedDir after an event that leaves the flags as given
PausedDirAfter(started, paused, over) ==
    IF GameState = "Running" /\ GameStateOf(started, paused, over) = "Paused"
        THEN directionRef
    ELSE IF GameState = "Paused" THEN pausedDir
    ELSE NONE

\* after the mount: the initial-food effect has placed the food, the game-loop
\* effect has found the game not started and armed nothing
Mounted ==
    /\ snake = INITIAL_SNAKE
    /\ food \in PlaceFood(INITIAL_SNAKE)
    /\ gameOver = FALSE
    /\ score = 0
    /\ isPaused = FALSE
    /\ gameStarted = FALSE
    /\ directionRef = INITIAL_DIRECTION
    /\ gameLoopRef = NULL
    /\ timers = 0
    /\ keys = 0
    /\ lastEvent = "mount"
    /\ lastKey = NONE
    /\ applied = NONE
    /\ pausedDir = NONE
    /\ created = 0
    /\ cancelled = 0
    /\ undone = NONE
    /\ lastAccepted = "UP"
    /\ changes = 0
    /\ pre = [snake |-> INITIAL_SNAKE, food |-> food, gameOver |-> FALSE,
              score |-> 0, isPaused |-> FALSE, gameStarted |-> FALSE,
              directionRef |-> INITIAL_DIRECTION, gameLoopRef |-> NULL,
              timers |-> 0,
              applied |-> NONE, pausedDir |-> NONE,
              lastAccepted |-> "UP", changes |-> 0]

\* Math.random() returns one of RandomLevels values
Init ==
    /\ randomLevels = RandomLevels
    /\ Mounted

\* variant: startGame without setIsPaused(false)
startGame_KeepPaused ==
    /\ ~gameStarted
    /\ gameStarted' = TRUE
    /\ gameLoopRef' = GameLoopEffect(TRUE, isPaused, gameOver, food)
    /\ lastEvent' = "start"
    /\ lastKey' = NONE
    /\ pre' = State
    /\ pausedDir' = PausedDirAfter(TRUE, isPaused, gameOver)
    /\ UNCHANGED <<snake, food, gameOver, score, isPaused, directionRef, keys, applied>>
    /\ Observe

\* the start button is rendered only while the game is not started
startGame ==
    /\ ~gameStarted
    /\ gameStarted' = TRUE
    /\ isPaused' = FALSE
    /\ gameLoopRef' = GameLoopEffect(TRUE, FALSE, gameOver, food)
    /\ lastEvent' = "start"
    /\ lastKey' = NONE
    /\ pre' = State
    /\ pausedDir' = PausedDirAfter(TRUE, FALSE, gameOver)
    /\ UNCHANGED <<snake, food, gameOver, score, directionRef, keys, applied>>
    /\ Observe

\* variant: the restart without directionRef.current = INITIAL_DIRECTION
Restart_KeepDirection ==
    /\ snake' = INITIAL_SNAKE
    /\ gameOver' = FALSE
    /\ score' = 0
    /\ isPaused' = FALSE
    /\ gameStarted' = TRUE
    /\ food' \in PlaceFood(INITIAL_SNAKE)
    /\ gameLoopRef' = GameLoopEffect(TRUE, FALSE, FALSE, food')
    /\ applied' = NONE
    /\ UNCHANGED directionRef

\* space while game over
Restart ==
    /\ snake' = INITIAL_SNAKE
    /\ directionRef' = INITIAL_DIRECTION
    /\ gameOver' = FALSE
    /\ score' = 0
    /\ isPaused' = FALSE
    /\ gameStarted' = TRUE
    /\ food' \in PlaceFood(INITIAL_SNAKE)
    /\ gameLoopRef' = GameLoopEffect(TRUE, FALSE, FALSE, food')
    /\ applied' = NONE

\* variant: setIsPaused(true) in place of the toggle
TogglePause_AlwaysPause ==
    /\ isPaused' = TRUE
    /\ gameLoopRef' = GameLoopEffect(gameStarted, TRUE, gameOver, food)
    /\ UNCHANGED <<snake, food, gameOver, score, gameStarted, directionRef, applied>>

\* space otherwise
TogglePause ==
    /\ isPaused' = ~isPaused
    /\ gameLoopRef' = GameLoopEffect(gameStarted, ~isPaused, gameOver, food)
    /\ UNCHANGED <<snake, food, gameOver, score, gameStarted, directionRef, applied>>

\* variant: if (gameOver) return;
MovementBlocked_OnlyGameOver(paused, over) == over

\* if (isPaused || gameOver) return;
MovementBlocked(paused, over) == paused \/ over

\* variant: the new direction stored without the test against the opposite
Turn_NoFilter(key) ==
    /\ directionRef' = keyMap[key]
    /\ UNCHANGED <<snake, food, gameOver, score, isPaused, gameStarted,
                   gameLoopRef, applied>>

\* a key the handler maps to a direction, while running
Turn(key) ==
    /\ directionRef' =
           IF keyMap[key] # oppositeDirections[directionRef]
               THEN keyMap[key]
               ELSE directionRef
    /\ UNCHANGED <<snake, food, gameOver, score, isPaused, gameStarted,
                   gameLoopRef, applied>>

Ignore == UNCHANGED <<progVars, applied>>

handleKeyPress(key) ==
    /\ keys' = keys + 1
    /\ lastEvent' = "key"
    /\ lastKey' = key
    /\ pre' = State
    /\ IF ~gameStarted /\ key # " " THEN Ignore
       ELSE IF key = " " THEN (IF gameOver THEN Restart ELSE TogglePause)
       ELSE IF MovementBlocked(isPaused, gameOver) THEN Ignore
       ELSE IF key \in DOMAIN keyMap THEN Turn(key)
       ELSE Ignore
    /\ pausedDir' = PausedDirAfter(gameStarted', isPaused', gameOver')
    /\ Observe

\* a keydown event, while the behaviour has keys left
KeyDown(key) ==
    /\ keys < MaxKeys
    /\ handleKeyPress(key)

\* one fire of the interval: the updater passed to setSnake and the state
\* updates it makes, committed together
Tick ==
    /\ timers > 0
    /\ lastEvent' = "tick"
    /\ lastKey' = NONE
    /\ pre' = State
    /\ applied' = directionRef
    /\ LET head == MoveHead(snake[1], directionRef)
           newSnake == Prepend(head, snake)
       IN  IF WallCollision(head) \/ SelfCollision(head, snake)
               THEN /\ gameOver' = TRUE
                    /\ snake' = snake
                    /\ gameLoopRef' = GameLoopEffect(gameStarted, isPaused, TRUE, food)
                    /\ UNCHANGED <<food, score>>
           ELSE IF FoodCollision(head, food)
               THEN /\ score' = AddScore(score)
                    /\ food' \in PlaceFood(newSnake)
                    /\ snake' = newSnake
                    /\ gameLoopRef' = GameLoopEffect(gameStarted, isPaused, gameOver, food')
                    /\ UNCHANGED gameOver
           ELSE /\ snake' = Pop(newSnake)
                /\ UNCHANGED <<food, score, gameOver, gameLoopRef>>
    /\ pausedDir' = NONE
    /\ UNCHANGED <<isPaused, gameStarted, directionRef, keys>>
    /\ Observe

Next ==
    \/ startGame
    \/ \E key \in Keys : KeyDown(key)
    \/ Tick

Spec == Init /\ [][Next]_vars

\* a keydown event, while the behaviour of SpecLive has keys left
KeyDownLive(key) ==
    /\ keys < LiveKeys
    /\ handleKeyPress(key)

NextLive ==
    \/ startGame
    \/ \E key \in Keys : KeyDownLive(key)
    \/ Tick

\* the interval fires again and again while it is armed
SpecLive == Init /\ [][NextLive]_vars /\ WF_vars(Tick)

----------------------------------------------------------------------------
(* A perfect game.  The player steers the snake along a closed tour of the *)
(* grid: along row 0 to the right, down the last column, then up the even  *)
(* and down the odd columns between rows 1 and GRID_SIZE - 1, back to row  *)
(* 0 by column 0.  Math.random() can return every multiple of              *)
(* 1 / GRID_SIZE, and every draw of the food falls on the cell ahead of    *)
(* the head on the tour.  The handlers are the ones of Spec; only the      *)
(* inputs (the key pressed, the time it is pressed at, the draws) are      *)
(* chosen.                                                                 *)

\* the direction of the tour at cell p
TourDir(p) ==
    IF p.y = 0 THEN (IF p.x < GRID_SIZE - 1 THEN "RIGHT" ELSE "DOWN")
    ELSE IF p.x % 2 = 1 THEN (IF p.y < GRID_SIZE - 1 THEN "DOWN" ELSE "LEFT")
    ELSE IF p.y > 1 \/ p.x = 0 THEN "UP"
    ELSE "LEFT"

\* the cell after p on the tour
TourNext(p) == MoveHead(p, TourDir(p))

\* the key the player presses for a direction
TourKey(d) ==
    CASE d = "UP"    -> "ArrowUp"
      [] d = "DOWN"  -> "ArrowDown"
      [] d = "LEFT"  -> "ArrowLeft"
      [] d = "RIGHT" -> "ArrowRight"

InitFill ==
    /\ randomLevels = GRID_SIZE
    /\ Mounted
    /\ food = TourNext(snake[1])

\* the player turns the snake where the tour turns, before the next tick
FillKey ==
    /\ GameState = "Running"
    /\ directionRef # TourDir(snake[1])
    /\ handleKeyPress(TourKey(TourDir(snake[1])))

\* a tick along the tour; the food it draws is the cell after the new head
FillTick ==
    /\ directionRef = TourDir(snake[1])
    /\ food' = TourNext(TourNext(snake[1]))
    /\ Tick

NextFill ==
    \/ startGame
    \/ FillKey
    \/ FillTick

SpecFill == InitFill /\ [][NextFill]_vars

\* the perfect game in which the interval keeps firing and the player keeps
\* steering
SpecFillLive == SpecFill /\ WF_vars(FillTick) /\ WF_vars(FillKey)

----------------------------------------------------------------------------
(* Vocabulary of the properties, stated on their own terms: none of these *)
(* is used by the program part of the actions above.                       *)

Cells == 0 .. GRID_SIZE - 1

InGrid(p) == p.x \in Cells /\ p.y \in Cells

Segments(s) == {s[i] : i \in 1 .. Len(s)}

\* the head of state st displaced by one cell along its pending direction
Candidate(st) ==
    LET h == st.snake[1]
        d == st.directionRef
    IN  [x |-> h.x + (IF d = "RIGHT" THEN 1 ELSE IF d = "LEFT" THEN -1 ELSE 0),
         y |-> h.y + (IF d = "DOWN" THEN 1 ELSE IF d = "UP" THEN -1 ELSE 0)]

StateOf(st) == GameStateOf(st.gameStarted, st.isPaused, st.gameOver)

\* the last event was a tick taken in Running
Ticked == lastEvent = "tick" /\ StateOf(pre) = "Running"

\* the last event was the key `key`
Pressed(key) == lastEvent = "key" /\ lastKey = key

\* the last event was a movement key
PressedMovement == lastEvent = "key" /\ IsMovementKey(lastKey)

\* the last event was space pressed in game over
Restarted == Pressed(" ") /\ StateOf(pre) = "GameOver"

\* the part of the state the player sees is as it was before the last event
SameSnakeFoodScore ==
    /\ snake = pre.snake
    /\ food = pre.food
    /\ score = pre.score

SameFlags ==
    /\ gameOver = pre.gameOver
    /\ isPaused = pre.isPaused
    /\ gameStarted = pre.gameStarted

----------------------------------------------------------------------------
(* C1: in every reachable state the food is on no segment of the snake.    *)
C1_FoodOffSnake == food \notin Segments(snake)

\* a tick has eaten and one of the cells a draw can give lies on the grown snake
C1_Witness ==
    /\ Ticked
    /\ Len(snake) = Len(pre.snake) + 1
    /\ generateFood \cap Segments(snake) # {}
    /\ food \notin Segments(snake)

(* C2: in every reachable state the snake is non-empty, every segment is   *)
(* inside the grid and no two segments are equal; a tick whose candidate   *)
(* head is outside the grid or on the snake commits nothing.               *)
C2_SnakeWellFormed ==
    /\ Len(snake) >= 1
    /\ \A i \in 1 .. Len(snake) : InGrid(snake[i])
    /\ \A i, j \in 1 .. Len(snake) : i # j => snake[i] # snake[j]
    /\ (Ticked /\ (~InGrid(Candidate(pre)) \/ Candidate(pre) \in Segments(pre.snake))
            => snake = pre.snake)

\* a tick has rejected a candidate head that lies on a snake grown by eating
C2_Witness ==
    /\ Ticked
    /\ Len(pre.snake) > 3
    /\ Candidate(pre) \in Segments(pre.snake)
    /\ snake = pre.snake

(* C3: the direction applied on a tick is never the opposite of the        *)
(* direction applied on the previous tick of the same round, so the        *)
(* candidate head of a tick is never the cell of the second segment.       *)
C3_NoReversal ==
    Ticked /\ pre.applied # NONE
        => /\ applied # Opposite(pre.applied)
           /\ Candidate(pre) # pre.snake[2]

(* C4: the game state changes only from NotStarted to Running by the start *)
(* action, between Running and Paused by space, from Running to GameOver   *)
(* by a tick whose move collides, and from GameOver to Running by space.   *)
C4_Transitions ==
    StateOf(pre) # GameState =>
        \/ /\ StateOf(pre) = "NotStarted" /\ GameState = "Running"
           /\ lastEvent = "start"
        \/ /\ StateOf(pre) = "Running" /\ GameState = "Paused"
           /\ Pressed(" ")
        \/ /\ StateOf(pre) = "Paused" /\ GameState = "Running"
           /\ Pressed(" ")
        \/ /\ StateOf(pre) = "Running" /\ GameState = "GameOver"
           /\ lastEvent = "tick"
           /\ ~InGrid(Candidate(pre)) \/ Candidate(pre) \in Segments(pre.snake)
        \/ /\ StateOf(pre) = "GameOver" /\ GameState = "Running"
           /\ Pressed(" ")

\* the game starts although space was pressed before the start
C4_Witness ==
    /\ lastEvent = "start"
    /\ pre.isPaused
    /\ StateOf(pre) = "NotStarted"
    /\ GameState = "Running"

(* C5: a tick in Running whose candidate head is outside the grid ends the *)
(* game and leaves snake, score and food as they were.                     *)
C5_WallCollision ==
    Ticked /\ ~InGrid(Candidate(pre))
        => GameState = "GameOver" /\ SameSnakeFoodScore

\* the snake has run into the right or the bottom wall
C5_Witness ==
    /\ Ticked
    /\ Candidate(pre).x = GRID_SIZE \/ Candidate(pre).y = GRID_SIZE
    /\ GameState = "GameOver"

(* C6: a tick in Running whose candidate head is inside the grid, not on   *)
(* the snake and not the food cell gives the candidate followed by the old *)
(* snake without its last segment, the same score and food, and Running.   *)
C6_PlainMove ==
    Ticked /\ InGrid(Candidate(pre)) /\ Candidate(pre) \notin Segments(pre.snake)
           /\ Candidate(pre) # pre.food
        => /\ snake = <<Candidate(pre)>> \o SubSeq(pre.snake, 1, Len(pre.snake) - 1)
           /\ Len(snake) = Len(pre.snake)
           /\ score = pre.score
           /\ food = pre.food
           /\ GameState = "Running"

\* a grown snake has moved after a turn
C6_Witness ==
    /\ Ticked
    /\ Len(pre.snake) > 3
    /\ snake # pre.snake
    /\ Len(snake) = Len(pre.snake)
    /\ snake[1].x # snake[3].x
    /\ snake[1].y # snake[3].y

(* C7: a tick in Running whose candidate head is the food cell gives the   *)
(* candidate followed by the whole old snake, the score raised by 10 and   *)
(* the food on a cell of the grid that is no segment of the grown snake.   *)
C7_EatFood ==
    Ticked /\ Candidate(pre) = pre.food
        => /\ snake = <<Candidate(pre)>> \o pre.snake
           /\ Len(snake) = Len(pre.snake) + 1
           /\ score = pre.score + 10
           /\ InGrid(food)
           /\ food \notin Segments(snake)

\* the snake has eaten for the second time
C7_Witness ==
    /\ Ticked
    /\ Candidate(pre) = pre.food
    /\ pre.score = 10
    /\ score = 20

(* C8: the start action from NotStarted and space in GameOver both give    *)
(* Running, not paused, with the snake (10,10),(10,11),(10,12), pending    *)
(* direction UP, score 0 and the food inside the grid and off the snake.   *)
C8_RoundStart ==
    (lastEvent = "start" /\ StateOf(pre) = "NotStarted") \/ Restarted
        => /\ GameState = "Running"
           /\ ~isPaused
           /\ snake = <<[x |-> 10, y |-> 10], [x |-> 10, y |-> 11], [x |-> 10, y |-> 12]>>
           /\ directionRef = "UP"
           /\ score = 0
           /\ InGrid(food)
           /\ food \notin Segments(snake)

\* a restart after a round that scored and ended heading another way
C8_Witness ==
    /\ Restarted
    /\ pre.score > 0
    /\ pre.directionRef # "UP"
    /\ Len(pre.snake) > 3
    /\ GameState = "Running"

(* C9: in Running a movement key opposite to the pending direction leaves  *)
(* the pending direction as it is, any other movement key sets it, and     *)
(* snake, food, score and game state stay as they were.                    *)
C9_DirectionFilter ==
    PressedMovement /\ StateOf(pre) = "Running"
        => /\ directionRef =
                  IF Intent(lastKey) = Opposite(pre.directionRef)
                      THEN pre.directionRef
                      ELSE Intent(lastKey)
           /\ SameSnakeFoodScore
           /\ SameFlags
           /\ GameState = "Running"

\* a reversing key was dropped after an earlier key had turned the snake
C9_Witness ==
    /\ PressedMovement
    /\ StateOf(pre) = "Running"
    /\ pre.directionRef # "UP"
    /\ Intent(lastKey) = Opposite(pre.directionRef)
    /\ directionRef = pre.directionRef

C11_KeysIgnoredBeforeStart ==
    /\ lastEvent = "key" /\ StateOf(pre) = "NotStarted"
           => /\ SameFlags
              /\ SameSnakeFoodScore
              /\ directionRef = pre.directionRef
    /\ StateOf(pre) = "NotStarted" /\ GameState # "NotStarted"
           => lastEvent = "start"

(* C12: space in Running gives Paused, space in Paused gives Running, each *)
(* leaves snake, food, score and pending direction as they were, and two   *)
(* presses in a row give back the state before the first.                  *)
C12_PauseToggle ==
    /\ Pressed(" ") /\ StateOf(pre) = "Running"
           => /\ GameState = "Paused"
              /\ SameSnakeFoodScore
              /\ directionRef = pre.directionRef
    /\ Pressed(" ") /\ StateOf(pre) = "Paused"
           => /\ GameState = "Running"
              /\ SameSnakeFoodScore
              /\ directionRef = pre.directionRef
    /\ undone # "differs"

\* a grown snake after a pause and a resume pressed in a row
C12_Witness ==
    /\ Pressed(" ")
    /\ undone = "same"
    /\ StateOf(pre) = "Paused"
    /\ GameState = "Running"
    /\ Len(snake) > 3

(* C13: in every reachable state at most one interval is live, and one is  *)
(* live (and held by gameLoopRef) exactly when the game is Running.        *)
C13_TimerIffRunning ==
    /\ timers \in {0, 1}
    /\ timers = 1 <=> GameState = "Running"
    /\ gameLoopRef # NULL <=> GameState = "Running"

\* the interval is armed again by a resume
C13_Witness ==
    /\ Pressed(" ")
    /\ StateOf(pre) = "Paused"
    /\ pre.timers = 0
    /\ pre.gameLoopRef = NULL
    /\ timers = 1

(* C14 as stated: an interval is created exactly on an event that enters   *)
(* Running and cancelled exactly on an event that leaves Running, so none  *)
(* is created or cancelled while the game stays in Running.                *)
C14_TimerPerTransition ==
    /\ created = IF StateOf(pre) # "Running" /\ GameState = "Running" THEN 1 ELSE 0
    /\ cancelled = IF StateOf(pre) = "Running" /\ GameState # "Running" THEN 1 ELSE 0

(* C14 amended: an interval is created once on an event that enters        *)
(* Running and cancelled once on an event that leaves Running; while the   *)
(* game stays in Running a tick that does not eat creates and cancels      *)
(* none, and a tick that eats (and relocates the food) cancels the armed   *)
(* interval once and creates one new interval.                             *)
C14_TimerPerTransitionOrMeal ==
    /\ created =
           IF GameState = "Running" /\ (StateOf(pre) # "Running" \/ food # pre.food)
               THEN 1 ELSE 0
    /\ cancelled =
           IF StateOf(pre) = "Running" /\ (GameState # "Running" \/ food # pre.food)
               THEN 1 ELSE 0
    /\ Ticked /\ food = pre.food /\ GameState = "Running"
           => created = 0 /\ cancelled = 0

\* a tick has eaten, and the interval was cancelled and created anew
C14_Witness ==
    /\ Ticked
    /\ GameState = "Running"
    /\ food # pre.food
    /\ created = 1
    /\ cancelled = 1
    /\ timers = 1

(* C15: in every reachable state in which a tick is about to eat, the      *)
(* grown snake leaves at least one cell of the grid free, so the loop that *)
(* relocates the food can end.                                             *)
C15_FreeCellRemains ==
    GameState = "Running" /\ InGrid(Candidate(State)) /\ Candidate(State) = food
        => \E px \in Cells, py \in Cells :
               [x |-> px, y |-> py] \notin Segments(snake) \cup {Candidate(State)}

(* C16: a tick in Running whose candidate head is inside the grid and on   *)
(* any segment of the snake before the move, the last one included, ends   *)
(* the game and leaves snake, score and food as they were.                 *)
C16_SelfCollision ==
    Ticked /\ InGrid(Candidate(pre))
           /\ (\E i \in 1 .. Len(pre.snake) : pre.snake[i] = Candidate(pre))
        => GameState = "GameOver" /\ SameSnakeFoodScore

\* the snake has run into the cell of its last segment
C16_Witness ==
    /\ Ticked
    /\ Candidate(pre) = pre.snake[Len(pre.snake)]
    /\ GameState = "GameOver"
    /\ snake = pre.snake

(* C17: a tick moves the head along the direction of the last movement key *)
(* accepted since the start or restart (UP if there was none), whatever    *)
(* keys were accepted before it, and leaves the pending direction as it    *)
(* was.                                                                    *)
C17_LatestDirectionApplies ==
    /\ gameStarted => directionRef = lastAccepted
    /\ Ticked
           => /\ applied = pre.lastAccepted
              /\ directionRef = pre.directionRef
              /\ snake # pre.snake
                     => snake[1] =
                            [x |-> pre.snake[1].x
                                   + (IF pre.lastAccepted = "RIGHT" THEN 1
                                      ELSE IF pre.lastAccepted = "LEFT" THEN -1
                                      ELSE 0),
                             y |-> pre.snake[1].y
                                   + (IF pre.lastAccepted = "DOWN" THEN 1
                                      ELSE IF pre.lastAccepted = "UP" THEN -1
                                      ELSE 0)]
              /\ snake = pre.snake => GameState = "GameOver"

\* a tick has moved the snake after the pending direction changed three times
\* since the tick before
C17_Witness ==
    /\ Ticked
    /\ pre.changes = 3
    /\ pre.applied # NONE
    /\ snake # pre.snake
    /\ applied = pre.lastAccepted

(* C18: snake, food and score change only on a tick taken in Running or on *)
(* a restart; no tick is taken in NotStarted, Paused or GameOver, and the  *)
(* snake shown in GameOver is the one before the colliding tick.           *)
C18_ChangesOnlyOnTickOrRestart ==
    /\ ~SameSnakeFoodScore => Ticked \/ Restarted
    /\ lastEvent = "tick" => StateOf(pre) = "Running"
    /\ GameState # "Running" => timers = 0
    /\ Ticked /\ GameState = "GameOver" => snake = pre.snake

\* a key pressed in game over that is not space: the grown snake stays
C18_Witness ==
    /\ lastEvent = "key"
    /\ lastKey # " "
    /\ StateOf(pre) = "GameOver"
    /\ GameState = "GameOver"
    /\ Len(snake) > 3
    /\ SameSnakeFoodScore

(* C19: in every reachable state the score is 10 times the number of       *)
(* segments the snake has grown by (its length minus 3).                   *)
C19_ScoreMatchesLength == score = 10 * (Len(snake) - 3)

\* the snake has grown twice
C19_Witness ==
    /\ Len(snake) = 5
    /\ score = 20
    /\ lastEvent = "tick"

\* the number of cells between the head of state st and the wall it heads for
Ahead(st) ==
    LET h == st.snake[1]
        d == st.directionRef
    IN  IF d = "UP" THEN h.y
        ELSE IF d = "DOWN" THEN GRID_SIZE - 1 - h.y
        ELSE IF d = "LEFT" THEN h.x
        ELSE GRID_SIZE - 1 - h.x

(* C20: from every Running state, if the interval keeps firing and no key  *)
(* is handled any more, the game reaches GameOver, after at most GRID_SIZE *)
(* ticks: fewer than GRID_SIZE cells lie ahead of the head, every tick     *)
(* that leaves the game Running takes one of them, and a tick with none    *)
(* ahead ends the game.  A behaviour handles finitely many keys, so after  *)
(* the last of them the game leaves Running for good.                      *)
C20_RoundEnds ==
    /\ [](GameState = "Running" => Ahead(State) \in 0 .. GRID_SIZE - 1)
    /\ [](Ticked /\ GameState = "Running" => Ahead(State) = Ahead(pre) - 1)
    /\ [](Ticked /\ Ahead(pre) = 0 => GameState = "GameOver")
    /\ <>[](GameState # "Running")

====
